---------------------------- MODULE Spec2Model ----------------------------
(***************************************************************************)
(* The SkSL IR node data model of src/sksl/ir/SkSLIRNode.h: the manually   *)
(* discriminated payload IRNode::NodeData (constructors, copy, assignment, *)
(* cleanup), the node's two owned child vectors, type(), the payload and   *)
(* child accessors, IRNode::operator= and the member-wise teardown of a    *)
(* node.  Scope tables are std::shared_ptr<SymbolTable> handles; their     *)
(* use counts are state.                                                   *)
(***************************************************************************)
EXTENDS Integers, Sequences, FiniteSets, TLC

VARIABLES
    st,                     \* lifetime of each IRNode / NodeData object
    fKind,                  \* IRNode::fKind, the node's kind tag
    fOffset,                \* IRNode::fOffset
    fData,                  \* IRNode::fData (or a free-standing NodeData)
    fExpressionChildren,    \* IRNode::fExpressionChildren
    fStatementChildren,     \* IRNode::fStatementChildren
    useCount,               \* use_count of each SymbolTable's control block
    tableState,             \* "fresh" (not yet made), "alive" or "released"
    pc,                     \* the operator= call in progress, if any
    ret                     \* the last member call and what it returned

vars ==
    <<st, fKind, fOffset, fData, fExpressionChildren, fStatementChildren,
      useCount, tableState, pc, ret>>

(***************************************************************************)
(* Bounds and value domains.                                               *)
(***************************************************************************)
MaxChildren == 2
MaxKids == 4
MaxCount == 1

\* Two node objects: every aliasing case of the binary operator=.
NodeIds == {1, 2}
\* Heap objects handed to a node as its children.
ChildIds == {Cardinality(NodeIds) + k : k \in 1..MaxKids}
Ids == NodeIds \cup ChildIds

NULL == "nullptr"
Tables == {"st1", "st2"}
Types == {"float", "int"}
Names == {"x", "y"}
Kinds == {0, 1}
Offsets == {-1, 7}

(***************************************************************************)
(* The payload structs, lines 84-162.                                      *)
(***************************************************************************)
BlockData(symbolTable, isScope) ==
    [fSymbolTable |-> symbolTable, fIsScope |-> isScope]

BoolLiteralData(type, value) ==
    [fType |-> type, fValue |-> value]

EnumData(typeName, symbols, isBuiltin) ==
    [fTypeName |-> typeName, fSymbols |-> symbols, fIsBuiltin |-> isBuiltin]

ExternalValueData(type, value) ==
    [fType |-> type, fValue |-> value]

FieldData(name, type, owner, fieldIndex) ==
    [fName |-> name, fType |-> type, fOwner |-> owner, fFieldIndex |-> fieldIndex]

FloatLiteralData(type, value) ==
    [fType |-> type, fValue |-> value]

ForStatementData(symbolTable) ==
    [fSymbolTable |-> symbolTable]

FunctionCallData(type, function) ==
    [fType |-> type, fFunction |-> function]

IntLiteralData(type, value) ==
    [fType |-> type, fValue |-> value]

StringData(text) ==
    [fString |-> text]

SymbolData(name, type) ==
    [fName |-> name, fType |-> type]

SymbolAliasData(name, origSymbol) ==
    [fName |-> name, fOrigSymbol |-> origSymbol]

TypeData(type) ==
    [fType |-> type]

TypeTokenData(type, token) ==
    [fType |-> type, fToken |-> token]

VariableData(name, type, initialValue, modifiers, reads, writes, storage, builtin) ==
    [fName |-> name, fType |-> type, fInitialValue |-> initialValue,
     fModifiersHandle |-> modifiers, fReadCount |-> reads,
     fWriteCount |-> writes, fStorage |-> storage, fBuiltin |-> builtin]

\* NodeData::Kind, lines 165-181.
NodeDataKinds ==
    {"kBlock", "kBoolLiteral", "kEnum", "kExternalValue", "kField",
     "kFloatLiteral", "kForStatement", "kFunctionCall", "kIntLiteral",
     "kString", "kSymbol", "kSymbolAlias", "kType", "kTypeToken", "kVariable"}

\* The shapes whose struct has an fType member (lines 92-162): the shapes
\* "carrying a type".
TypeBearing ==
    {"kBoolLiteral", "kExternalValue", "kField", "kFloatLiteral",
     "kFunctionCall", "kIntLiteral", "kSymbol", "kType", "kTypeToken",
     "kVariable"}

Typeless == NodeDataKinds \ TypeBearing

\* The converting constructors NodeData(const XData&), lines 206-279: the
\* discriminant is set from the argument's static type and the argument is
\* copied into the union.
NodeData(kind, data) ==
    [fKind |-> kind, fContents |-> data]

\* An object outside its lifetime has no payload.
NoData == [fKind |-> "none"]

(***************************************************************************)
(* Bounded constructor arguments: a few values of every shape.             *)
(***************************************************************************)
Samples ==
    {NodeData("kBlock", BlockData(t, TRUE)) : t \in Tables \cup {NULL}}
    \cup {NodeData("kBlock", BlockData("st1", FALSE))}
    \cup {NodeData("kBoolLiteral", BoolLiteralData(T, T = "int")) : T \in Types}
    \cup {NodeData("kEnum", EnumData("x", t, t = "st1")) : t \in Tables}
    \cup {NodeData("kExternalValue", ExternalValueData(T, "ext")) : T \in Types}
    \cup {NodeData("kField", FieldData("y", T, "var", 1)) : T \in Types}
    \cup {NodeData("kFloatLiteral", FloatLiteralData(T, 3)) : T \in Types}
    \cup {NodeData("kForStatement", ForStatementData(t)) : t \in Tables}
    \cup {NodeData("kFunctionCall", FunctionCallData(T, "fn")) : T \in Types}
    \cup {NodeData("kIntLiteral", IntLiteralData(T, 42)) : T \in Types}
    \cup {NodeData("kString", StringData(s)) : s \in {"", "text"}}
    \cup {NodeData("kSymbol", SymbolData(n, "int")) : n \in Names}
    \cup {NodeData("kSymbol", SymbolData("x", "float"))}
    \cup {NodeData("kSymbolAlias", SymbolAliasData(n, "sym")) : n \in Names}
    \cup {NodeData("kType", TypeData(T)) : T \in Types \cup {NULL}}
    \cup {NodeData("kTypeToken", TypeTokenData(T, "tok")) : T \in Types}
    \cup {NodeData("kVariable", VariableData("x", T, NULL, 0, 0, 1, 0, FALSE)) :
            T \in Types}

(***************************************************************************)
(* std::shared_ptr<SymbolTable>: the members fSymbolTable / fSymbols of    *)
(* BlockData, EnumData and ForStatementData.                               *)
(***************************************************************************)
\* Copying a handle adds a share; the first handle to a table makes it.
Retain(uc, h) ==
    IF h = NULL THEN uc ELSE [uc EXCEPT ![h] = @ + 1]

\* Destroying a handle takes a share away.
Release(uc, h) ==
    IF h = NULL THEN uc ELSE [uc EXCEPT ![h] = @ - 1]

\* The table is deleted by the release that takes the last share.
Settle(ts, uc) ==
    [t \in Tables |->
        IF ts[t] = "released" THEN "released"
        ELSE IF uc[t] > 0 THEN "alive"
        ELSE IF ts[t] = "alive" THEN "released" ELSE "fresh"]

\* The union between cleanup() and the placement new: no member is alive.
Destroyed == [destroyed |-> TRUE]

\* The shared handle stored in a payload (NULL when the shape has none).
Handle(d) ==
    IF d.fKind = "none" THEN NULL
    ELSE IF d.fContents = Destroyed THEN NULL
    ELSE CASE d.fKind = "kBlock" -> d.fContents.fSymbolTable
           [] d.fKind = "kEnum" -> d.fContents.fSymbols
           [] d.fKind = "kForStatement" -> d.fContents.fSymbolTable
           [] OTHER -> NULL

\* A handle can be copied only from a holder, or be to a table just made.
Obtainable(h) ==
    IF h = NULL THEN TRUE ELSE tableState[h] # "released"

(***************************************************************************)
(* NodeData::cleanup, lines 343-390: runs the destructor of the active     *)
(* union member.  The result is the handle that destructor releases.       *)
(***************************************************************************)
\* Mutant: the destructor of the active member is not run.
cleanupNothing(d) ==
    NULL

cleanup(d) ==
    CASE d.fKind = "kBlock" -> d.fContents.fSymbolTable
      [] d.fKind = "kBoolLiteral" -> NULL
      [] d.fKind = "kEnum" -> d.fContents.fSymbols
      [] d.fKind = "kExternalValue" -> NULL
      [] d.fKind = "kField" -> NULL
      [] d.fKind = "kFloatLiteral" -> NULL
      [] d.fKind = "kForStatement" -> d.fContents.fSymbolTable
      [] d.fKind = "kFunctionCall" -> NULL
      [] d.fKind = "kIntLiteral" -> NULL
      [] d.fKind = "kString" -> NULL
      [] d.fKind = "kSymbol" -> NULL
      [] d.fKind = "kSymbolAlias" -> NULL
      [] d.fKind = "kType" -> NULL
      [] d.fKind = "kTypeToken" -> NULL
      [] d.fKind = "kVariable" -> NULL

(***************************************************************************)
(* new(&fContents) XData, lines 290-332: default-initialization of the     *)
(* union member.  Members with a default constructor or initializer get    *)
(* it (shared_ptr: null; String and StringFragment: empty; fInitialValue:  *)
(* nullptr, line 152); the trivially constructed members are               *)
(* indeterminate: any value of the bounded domain.                         *)
(***************************************************************************)
Defaulted(k, c) ==
    CASE k = "kBlock" -> [c EXCEPT !.fSymbolTable = NULL]
      [] k = "kEnum" -> [c EXCEPT !.fSymbols = NULL, !.fTypeName = ""]
      [] k = "kForStatement" -> [c EXCEPT !.fSymbolTable = NULL]
      [] k = "kString" -> [c EXCEPT !.fString = ""]
      [] k = "kField" -> [c EXCEPT !.fName = ""]
      [] k = "kSymbol" -> [c EXCEPT !.fName = ""]
      [] k = "kSymbolAlias" -> [c EXCEPT !.fName = ""]
      [] k = "kVariable" -> [c EXCEPT !.fInitialValue = NULL, !.fName = ""]
      [] OTHER -> c

DefaultInit(k) ==
    {Defaulted(k, s.fContents) : s \in {x \in Samples : x.fKind = k}}

(***************************************************************************)
(* NodeData::operator=, lines 285-336, after its call of cleanup():        *)
(* fKind = other.fKind, then *(new(&fContents) XData) = other.fContents.X. *)
(* When other is this very object the right-hand side is read after the    *)
(* placement new has re-initialized it.                                    *)
(***************************************************************************)
\* Mutant: the copy leaves the default discriminant of line 181 in place.
InstallDefaultShape(self, other) ==
    {NodeData("kType", TypeData(NULL))}

Install(self, other) ==
    IF self
    THEN {NodeData(other.fKind, c) : c \in DefaultInit(other.fKind)}
    ELSE {NodeData(other.fKind, other.fContents)}

(***************************************************************************)
(* SkASSERT and SkUNREACHABLE are macros defined outside this file: a      *)
(* failed assertion, and reaching the unreachable, abort.                  *)
(***************************************************************************)
Ok(v) == [fault |-> FALSE, val |-> v]

Fault == [fault |-> TRUE, val |-> "abort"]

SkASSERT(cond, result) ==
    IF cond THEN Ok(result) ELSE Fault

SkUNREACHABLE == {Fault}

(***************************************************************************)
(* The payload accessors, lines 463-551.                                   *)
(***************************************************************************)
blockData(n) ==
    SkASSERT(fData[n].fKind = "kBlock", fData[n].fContents)

boolLiteralData(n) ==
    SkASSERT(fData[n].fKind = "kBoolLiteral", fData[n].fContents)

\* Mutant: the assertion names the wrong discriminant.
enumDataWrongGuard(n) ==
    SkASSERT(fData[n].fKind = "kBlock", fData[n].fContents)

enumData(n) ==
    SkASSERT(fData[n].fKind = "kEnum", fData[n].fContents)

externalValueData(n) ==
    SkASSERT(fData[n].fKind = "kExternalValue", fData[n].fContents)

fieldData(n) ==
    SkASSERT(fData[n].fKind = "kField", fData[n].fContents)

floatLiteralData(n) ==
    SkASSERT(fData[n].fKind = "kFloatLiteral", fData[n].fContents)

forStatementData(n) ==
    SkASSERT(fData[n].fKind = "kForStatement", fData[n].fContents)

functionCallData(n) ==
    SkASSERT(fData[n].fKind = "kFunctionCall", fData[n].fContents)

intLiteralData(n) ==
    SkASSERT(fData[n].fKind = "kIntLiteral", fData[n].fContents)

stringData(n) ==
    SkASSERT(fData[n].fKind = "kString", fData[n].fContents)

symbolData(n) ==
    SkASSERT(fData[n].fKind = "kSymbol", fData[n].fContents)

symbolAliasData(n) ==
    SkASSERT(fData[n].fKind = "kSymbolAlias", fData[n].fContents)

typeData(n) ==
    SkASSERT(fData[n].fKind = "kType", fData[n].fContents)

typeTokenData(n) ==
    SkASSERT(fData[n].fKind = "kTypeToken", fData[n].fContents)

variableData(n) ==
    SkASSERT(fData[n].fKind = "kVariable", fData[n].fContents)

\* The accessor of shape k.
Accessor(k, n) ==
    CASE k = "kBlock" -> blockData(n)
      [] k = "kBoolLiteral" -> boolLiteralData(n)
      [] k = "kEnum" -> enumData(n)
      [] k = "kExternalValue" -> externalValueData(n)
      [] k = "kField" -> fieldData(n)
      [] k = "kFloatLiteral" -> floatLiteralData(n)
      [] k = "kForStatement" -> forStatementData(n)
      [] k = "kFunctionCall" -> functionCallData(n)
      [] k = "kIntLiteral" -> intLiteralData(n)
      [] k = "kString" -> stringData(n)
      [] k = "kSymbol" -> symbolData(n)
      [] k = "kSymbolAlias" -> symbolAliasData(n)
      [] k = "kType" -> typeData(n)
      [] k = "kTypeToken" -> typeTokenData(n)
      [] k = "kVariable" -> variableData(n)

(***************************************************************************)
(* IRNode::type, lines 56-81.  The result is a const Type&: dereferencing  *)
(* a null Type* is undefined, any outcome.                                 *)
(***************************************************************************)
Deref(acc) ==
    IF acc.fault THEN {Fault}
    ELSE IF acc.val.fType = NULL THEN {Fault} \cup {Ok(T) : T \in Types}
    ELSE {Ok(acc.val.fType)}

\* Mutant: the kTypeToken case is missing from the switch.
typeMissingCase(n) ==
    CASE fData[n].fKind = "kBoolLiteral" -> Deref(boolLiteralData(n))
      [] fData[n].fKind = "kExternalValue" -> Deref(externalValueData(n))
      [] fData[n].fKind = "kField" -> Deref(fieldData(n))
      [] fData[n].fKind = "kFloatLiteral" -> Deref(floatLiteralData(n))
      [] fData[n].fKind = "kFunctionCall" -> Deref(functionCallData(n))
      [] fData[n].fKind = "kIntLiteral" -> Deref(intLiteralData(n))
      [] fData[n].fKind = "kSymbol" -> Deref(symbolData(n))
      [] fData[n].fKind = "kType" -> Deref(typeData(n))
      [] fData[n].fKind = "kVariable" -> Deref(variableData(n))
      [] OTHER -> SkUNREACHABLE

\* Mutant: the default case returns a type instead of being unreachable.
typeWithDefault(n) ==
    CASE fData[n].fKind = "kBoolLiteral" -> Deref(boolLiteralData(n))
      [] fData[n].fKind = "kExternalValue" -> Deref(externalValueData(n))
      [] fData[n].fKind = "kField" -> Deref(fieldData(n))
      [] fData[n].fKind = "kFloatLiteral" -> Deref(floatLiteralData(n))
      [] fData[n].fKind = "kFunctionCall" -> Deref(functionCallData(n))
      [] fData[n].fKind = "kIntLiteral" -> Deref(intLiteralData(n))
      [] fData[n].fKind = "kSymbol" -> Deref(symbolData(n))
      [] fData[n].fKind = "kType" -> Deref(typeData(n))
      [] fData[n].fKind = "kTypeToken" -> Deref(typeTokenData(n))
      [] fData[n].fKind = "kVariable" -> Deref(variableData(n))
      [] OTHER -> {Ok("int")}

type(n) ==
    CASE fData[n].fKind = "kBoolLiteral" -> Deref(boolLiteralData(n))
      [] fData[n].fKind = "kExternalValue" -> Deref(externalValueData(n))
      [] fData[n].fKind = "kField" -> Deref(fieldData(n))
      [] fData[n].fKind = "kFloatLiteral" -> Deref(floatLiteralData(n))
      [] fData[n].fKind = "kFunctionCall" -> Deref(functionCallData(n))
      [] fData[n].fKind = "kIntLiteral" -> Deref(intLiteralData(n))
      [] fData[n].fKind = "kSymbol" -> Deref(symbolData(n))
      [] fData[n].fKind = "kType" -> Deref(typeData(n))
      [] fData[n].fKind = "kTypeToken" -> Deref(typeTokenData(n))
      [] fData[n].fKind = "kVariable" -> Deref(variableData(n))
      [] OTHER -> SkUNREACHABLE

(***************************************************************************)
(* The child accessors, lines 424-461.  C++ indices count from 0.          *)
(***************************************************************************)
\* Mutant: the expression accessor indexes the statement vector.
expressionChildOfStatements(n, index) ==
    SkASSERT(index >= 0 /\ index < Len(fStatementChildren[n]),
             IF index + 1 \in DOMAIN fStatementChildren[n]
             THEN fStatementChildren[n][index + 1] ELSE 0)

expressionChild(n, index) ==
    SkASSERT(index >= 0 /\ index < Len(fExpressionChildren[n]),
             IF index + 1 \in DOMAIN fExpressionChildren[n]
             THEN fExpressionChildren[n][index + 1] ELSE 0)

expressionChildCount(n) ==
    Len(fExpressionChildren[n])

statementChild(n, index) ==
    SkASSERT(index >= 0 /\ index < Len(fStatementChildren[n]),
             IF index + 1 \in DOMAIN fStatementChildren[n]
             THEN fStatementChildren[n][index + 1] ELSE 0)

statementChildCount(n) ==
    Len(fStatementChildren[n])

\* expressionPointer / statementPointer, lines 429-432 and 449-452: the
\* owning slot itself, which the caller may assign to.
expressionPointer(n, index) ==
    SkASSERT(index >= 0 /\ index < Len(fExpressionChildren[n]), index + 1)

statementPointer(n, index) ==
    SkASSERT(index >= 0 /\ index < Len(fStatementChildren[n]), index + 1)

(***************************************************************************)
(* State shared by all the operations.                                     *)
(***************************************************************************)
Idle == [op |-> "idle", dst |-> 0, src |-> 0]

NoCall == [op |-> "none", node |-> 0, arg |-> 0, fault |-> FALSE, val |-> 0]

Call(op, n, arg, outcome) ==
    [op |-> op, node |-> n, arg |-> arg, fault |-> outcome.fault, val |-> outcome.val]

\* A failed assertion aborts the process: nothing runs after it.
Running == ~ret.fault /\ pc.op = "idle"

Live(n) == st[n] = "live"

Init ==
    /\ st = [n \in Ids |-> "unborn"]
    /\ fKind = [n \in Ids |-> 0]
    /\ fOffset = [n \in Ids |-> 0]
    /\ fData = [n \in Ids |-> NoData]
    /\ fExpressionChildren = [n \in Ids |-> <<>>]
    /\ fStatementChildren = [n \in Ids |-> <<>>]
    /\ useCount = [t \in Tables |-> 0]
    /\ tableState = [t \in Tables |-> "fresh"]
    /\ pc = Idle
    /\ ret = NoCall

(***************************************************************************)
(* The IRNode constructors, lines 393-422 (declared here, defined in the   *)
(* .cpp): offset, kind tag and payload are stored; the children the        *)
(* lowering pass built for the node are moved into the two vectors in the  *)
(* order given.  Children are heap objects made just before.               *)
(***************************************************************************)
FreeKids == {c \in ChildIds : st[c] = "unborn"}

FirstFree == CHOOSE c \in FreeKids : \A x \in FreeKids : c <= x

RetainN(uc, h, k) ==
    IF h = NULL THEN uc ELSE [uc EXCEPT ![h] = @ + k]

Construct(n, offset, kind, d, ne, ns, kdE, kdS) ==
    /\ Running
    /\ st[n] = "unborn"
    /\ ne + ns <= Cardinality(FreeKids)
    /\ Obtainable(Handle(d)) /\ Obtainable(Handle(kdE)) /\ Obtainable(Handle(kdS))
    /\ LET eKids == [i \in 1..ne |-> FirstFree + i - 1]
           sKids == [i \in 1..ns |-> FirstFree + ne + i - 1]
           eSet == {eKids[i] : i \in 1..ne}
           sSet == {sKids[i] : i \in 1..ns}
           uc == RetainN(RetainN(Retain(useCount, Handle(d)), Handle(kdE), ne),
                         Handle(kdS), ns)
       IN  /\ st' = [x \in Ids |-> IF x \in {n} \cup eSet \cup sSet THEN "live" ELSE st[x]]
           /\ fKind' = [x \in Ids |-> IF x \in {n} \cup eSet \cup sSet THEN kind ELSE fKind[x]]
           /\ fOffset' = [x \in Ids |->
                            IF x \in {n} \cup eSet \cup sSet THEN offset ELSE fOffset[x]]
           /\ fData' = [x \in Ids |->
                            IF x = n THEN d
                            ELSE IF x \in eSet THEN kdE
                            ELSE IF x \in sSet THEN kdS
                            ELSE fData[x]]
           /\ fExpressionChildren' = [fExpressionChildren EXCEPT ![n] = eKids]
           /\ fStatementChildren' = [fStatementChildren EXCEPT ![n] = sKids]
           /\ useCount' = uc
           /\ tableState' = Settle(tableState, uc)
    /\ pc' = pc
    /\ ret' = NoCall

(***************************************************************************)
(* Calls of the const members on a live node.                              *)
(***************************************************************************)
Unchanged ==
    UNCHANGED <<st, fKind, fOffset, fData, fExpressionChildren,
                fStatementChildren, useCount, tableState, pc>>

CallType(n) ==
    /\ Running /\ Live(n)
    /\ \E o \in type(n) : ret' = Call("type", n, 0, o)
    /\ Unchanged

CallData(k, n) ==
    /\ Running /\ Live(n)
    /\ ret' = Call("data", n, k, Accessor(k, n))
    /\ Unchanged

CallExpressionChild(n, index) ==
    /\ Running /\ Live(n)
    /\ ret' = Call("expressionChild", n, index, expressionChild(n, index))
    /\ Unchanged

CallStatementChild(n, index) ==
    /\ Running /\ Live(n)
    /\ ret' = Call("statementChild", n, index, statementChild(n, index))
    /\ Unchanged

CallExpressionChildCount(n) ==
    /\ Running /\ Live(n)
    /\ ret' = Call("expressionChildCount", n, 0, Ok(expressionChildCount(n)))
    /\ Unchanged

CallStatementChildCount(n) ==
    /\ Running /\ Live(n)
    /\ ret' = Call("statementChildCount", n, 0, Ok(statementChildCount(n)))
    /\ Unchanged

(***************************************************************************)
(* Spec: one node is built by the lowering pass, with any payload and any  *)
(* children, and a pass queries it.                                        *)
(***************************************************************************)
ExprLeaf == NodeData("kIntLiteral", IntLiteralData("int", 42))

StmtLeaf == NodeData("kBlock", BlockData(NULL, FALSE))

Indices == (0 - 1)..(MaxChildren + 1)

NewNode ==
    /\ Running
    /\ \A m \in NodeIds : st[m] = "unborn"
    /\ \E n \in NodeIds, offset \in Offsets, kind \in Kinds, d \in Samples :
            \E ne \in 0..MaxChildren, ns \in 0..MaxChildren :
                Construct(n, offset, kind, d, ne, ns, ExprLeaf, StmtLeaf)

Query ==
    \E n \in NodeIds :
        \/ CallType(n)
        \/ \E k \in NodeDataKinds : CallData(k, n)
        \/ \E i \in Indices : CallExpressionChild(n, i)
        \/ \E i \in Indices : CallStatementChild(n, i)
        \/ CallExpressionChildCount(n)
        \/ CallStatementChildCount(n)

Next ==
    \/ NewNode
    \/ Query

Spec == Init /\ [][Next]_vars

(***************************************************************************)
(* Claims checked under Spec.                                              *)
(***************************************************************************)
\* C3: type() on a node whose payload is of a type-bearing shape and carries
\* the type reference T returns exactly T, whatever the node's kind tag.
C3_TypeReturnsCarriedType ==
    (ret.op = "type" /\ fData[ret.node].fKind \in TypeBearing)
        => (fData[ret.node].fContents.fType # NULL
                => (~ret.fault /\ ret.val = fData[ret.node].fContents.fType))

C3_Witness ==
    /\ ret.op = "type"
    /\ fData[ret.node].fKind = "kTypeToken"
    /\ fKind[ret.node] = 1
    /\ ~ret.fault
    /\ ret.val = "float"

\* C4: type() on a node whose payload is a Block, Enum, ForStatement, String
\* or SymbolAlias faults and returns no type.
C4_TypelessShapeFaults ==
    (ret.op = "type" /\ fData[ret.node].fKind \in Typeless) => ret.fault

C4_Witness ==
    /\ ret.op = "type"
    /\ fData[ret.node].fKind = "kSymbolAlias"
    /\ ret.fault

\* C5: expressionChild(i) returns the i-th expression child and
\* statementChild(j) the j-th statement child, in the order they were put in
\* at construction, each vector indexed on its own; the counts are the
\* vectors' lengths; an index below 0 or at or above the count faults.
C5_ChildAccess ==
    /\ ret.op = "expressionChild" =>
            IF 0 <= ret.arg /\ ret.arg < Len(fExpressionChildren[ret.node])
            THEN ~ret.fault /\ ret.val = fExpressionChildren[ret.node][ret.arg + 1]
                 /\ ret.val = Cardinality(NodeIds) + 1 + ret.arg
            ELSE ret.fault
    /\ ret.op = "statementChild" =>
            IF 0 <= ret.arg /\ ret.arg < Len(fStatementChildren[ret.node])
            THEN ~ret.fault /\ ret.val = fStatementChildren[ret.node][ret.arg + 1]
                 /\ ret.val = Cardinality(NodeIds) + 1
                                + Len(fExpressionChildren[ret.node]) + ret.arg
            ELSE ret.fault
    /\ ret.op = "expressionChildCount" =>
            ret.val = Len(fExpressionChildren[ret.node])
    /\ ret.op = "statementChildCount" =>
            ret.val = Len(fStatementChildren[ret.node])

C5_Witness ==
    /\ ret.op = "expressionChild"
    /\ ret.arg = 1
    /\ Len(fExpressionChildren[ret.node]) = 2
    /\ Len(fStatementChildren[ret.node]) = 1
    /\ ~ret.fault
    /\ ret.val = fExpressionChildren[ret.node][2]

\* C8: the accessor of shape S returns the stored contents exactly when the
\* node's active shape is S, and faults on every other shape.
C8_AccessorMatchesShape ==
    ret.op = "data" =>
        IF fData[ret.node].fKind = ret.arg
        THEN ~ret.fault /\ ret.val = fData[ret.node].fContents
        ELSE ret.fault

C8_Witness ==
    /\ ret.op = "data"
    /\ ret.arg = "kEnum"
    /\ fData[ret.node].fKind = "kBlock"
    /\ ret.fault

(***************************************************************************)
(* IRNode::operator=, lines 38-48: the assertion on the source's           *)
(* expression children, then fKind, fOffset and fData are assigned; the    *)
(* child vectors are not touched.  fData = other.fData is                  *)
(* NodeData::operator=: cleanup() of the old shape, then the new shape is  *)
(* installed.                                                              *)
(***************************************************************************)
\* Mutant: the assertion looks at the target's children, not the source's.
AssignGuardOnThis(a, b) ==
    fExpressionChildren[a] = <<>>

AssignGuard(a, b) ==
    fExpressionChildren[b] = <<>>

IRNodeAssign(a, b) ==
    /\ Running /\ Live(a) /\ Live(b)
    /\ IF SkASSERT(AssignGuard(a, b), 0).fault
       THEN /\ ret' = Call("assign", a, b, Fault)
            /\ Unchanged
       ELSE /\ \E d \in Install(a = b, fData[b]) :
                    LET uc1 == Release(useCount, cleanup(fData[a]))
                        ts1 == Settle(tableState, uc1)
                        uc2 == Retain(uc1, Handle(d))
                    IN  /\ fData' = [fData EXCEPT ![a] = d]
                        /\ useCount' = uc2
                        /\ tableState' = Settle(ts1, uc2)
            /\ fKind' = [fKind EXCEPT ![a] = fKind[b]]
            /\ fOffset' = [fOffset EXCEPT ![a] = fOffset[b]]
            /\ ret' = Call("assign", a, b, Ok(0))
            /\ UNCHANGED <<st, fExpressionChildren, fStatementChildren, pc>>

(***************************************************************************)
(* A pass writes a Variable's usage counters through the non-const         *)
(* variableData(), lines 543-546 (fReadCount, fWriteCount: lines 156-159). *)
(***************************************************************************)
SetReadCount(n, v) ==
    /\ Running /\ Live(n)
    /\ IF variableData(n).fault
       THEN /\ ret' = Call("setReadCount", n, v, Fault)
            /\ Unchanged
       ELSE /\ fData' = [fData EXCEPT ![n].fContents.fReadCount = v]
            /\ ret' = NoCall
            /\ UNCHANGED <<st, fKind, fOffset, fExpressionChildren,
                           fStatementChildren, useCount, tableState, pc>>

SetWriteCount(n, v) ==
    /\ Running /\ Live(n)
    /\ IF variableData(n).fault
       THEN /\ ret' = Call("setWriteCount", n, v, Fault)
            /\ Unchanged
       ELSE /\ fData' = [fData EXCEPT ![n].fContents.fWriteCount = v]
            /\ ret' = NoCall
            /\ UNCHANGED <<st, fKind, fOffset, fExpressionChildren,
                           fStatementChildren, useCount, tableState, pc>>

(***************************************************************************)
(* A pass replaces a child in place: it assigns a new std::unique_ptr to   *)
(* the slot expressionPointer(i) / statementPointer(i) returns, which      *)
(* deletes the child the slot owned.  The children here are leaves, so     *)
(* deleting one is the teardown of its payload.                            *)
(***************************************************************************)
ReplaceChild(n, index, slot, children, kd, op) ==
    /\ Running /\ Live(n)
    /\ IF slot.fault
       THEN /\ ret' = Call(op, n, index, Fault)
            /\ Unchanged
       ELSE /\ FreeKids # {}
            /\ Obtainable(Handle(kd))
            /\ LET old == children[n][slot.val]
                   new == FirstFree
                   uc1 == Retain(useCount, Handle(kd))
                   uc2 == Release(uc1, cleanup(fData[old]))
               IN  /\ st' = [st EXCEPT ![old] = "dead", ![new] = "live"]
                   /\ fData' = [fData EXCEPT ![old] = NoData, ![new] = kd]
                   /\ fKind' = [fKind EXCEPT ![new] = fKind[old]]
                   /\ fOffset' = [fOffset EXCEPT ![new] = fOffset[old]]
                   /\ children' = [children EXCEPT ![n][slot.val] = new]
                   /\ useCount' = uc2
                   /\ tableState' = Settle(Settle(tableState, uc1), uc2)
            /\ ret' = NoCall
            /\ pc' = pc

ReplaceExpressionChild(n, index) ==
    /\ ReplaceChild(n, index, expressionPointer(n, index), fExpressionChildren,
                    NodeData("kIntLiteral", IntLiteralData("int", 42)),
                    "replaceExpression")
    /\ fStatementChildren' = fStatementChildren

ReplaceStatementChild(n, index) ==
    /\ ReplaceChild(n, index, statementPointer(n, index), fStatementChildren,
                    NodeData("kBlock", BlockData(NULL, FALSE)),
                    "replaceStatement")
    /\ fExpressionChildren' = fExpressionChildren

(***************************************************************************)
(* SpecAssign: two nodes are built, passes mutate them in place and        *)
(* copy-assign one to the other (or to itself).                            *)
(***************************************************************************)
\* The source is drawn from shapes with and without a scope table, a type
\* and counters; the target starts from fewer.
AssignSamples ==
    {s \in Samples :
        \/ s.fKind \in {"kBlock", "kForStatement"}
        \/ s.fKind \in {"kEnum", "kString"}
                /\ s.fContents \in {EnumData("x", "st1", TRUE), StringData("text")}
        \/ s.fKind \in {"kIntLiteral", "kSymbol", "kType", "kVariable"}
                /\ s.fContents.fType = "int"
                /\ (s.fKind = "kSymbol" => s.fContents.fName = "x")}

TargetSamples ==
    {s \in Samples :
        \/ s.fKind = "kBlock" /\ s.fContents.fSymbolTable = "st1" /\ s.fContents.fIsScope
        \/ s.fKind \in {"kIntLiteral", "kVariable"} /\ s.fContents.fType = "float"}

Headers == {<<0, 0 - 1>>, <<1, 7>>}

\* Node 1 is built first.
NewNodeA ==
    /\ Running
    /\ \E n \in {m \in NodeIds : st[m] = "unborn" /\ \A x \in NodeIds : x < m => Live(x)} :
            \E h \in Headers, d \in (IF n = 1 THEN TargetSamples ELSE AssignSamples) :
                \E ne \in 0..1, ns \in 0..1 :
                    Construct(n, h[2], h[1], d, ne, ns, ExprLeaf, StmtLeaf)

Assign ==
    \E a \in NodeIds, b \in NodeIds : IRNodeAssign(a, b)

SetCounters ==
    \E n \in NodeIds, v \in 0..MaxCount :
        \/ SetReadCount(n, v)
        \/ SetWriteCount(n, v)

NextAssign ==
    \/ NewNodeA
    \/ Assign
    \/ SetCounters

SpecAssign == Init /\ [][NextAssign]_vars

(***************************************************************************)
(* SpecShape: every operation the node offers, on two nodes of a few       *)
(* shapes.                                                                 *)
(***************************************************************************)
ShapeSources ==
    {s \in Samples :
        \/ s.fKind = "kForStatement" /\ s.fContents.fSymbolTable = "st2"
        \/ s.fKind = "kString" /\ s.fContents.fString = "text"
        \/ s.fKind = "kVariable" /\ s.fContents.fType = "int"}

ShapeTargets ==
    {s \in TargetSamples : s.fKind \in {"kBlock", "kIntLiteral"}}

NewNodeS ==
    /\ Running
    /\ \E n \in {m \in NodeIds : st[m] = "unborn" /\ \A x \in NodeIds : x < m => Live(x)} :
            \E d \in (IF n = 1 THEN ShapeTargets ELSE ShapeSources) :
                \E ne \in 0..1, ns \in 0..(2 - n) :
                    Construct(n, 7, 1, d, ne, ns, ExprLeaf, StmtLeaf)

Replace ==
    \E n \in NodeIds, i \in 0..1 :
        \/ ReplaceExpressionChild(n, i)
        \/ ReplaceStatementChild(n, i)

QueryS ==
    \E n \in NodeIds :
        \/ CallType(n)
        \/ CallExpressionChild(n, 0)
        \/ CallStatementChild(n, 0)

NextShape ==
    \/ NewNodeS
    \/ Assign
    \/ SetCounters
    \/ Replace
    \/ QueryS

SpecShape == Init /\ [][NextShape]_vars

AssignFrame(a) ==
    /\ fExpressionChildren' = fExpressionChildren
    /\ fStatementChildren' = fStatementChildren
    /\ st' = st
    /\ \A x \in Ids \ {a} :
            fKind'[x] = fKind[x] /\ fOffset'[x] = fOffset[x] /\ fData'[x] = fData[x]

SourceUnchanged(b) ==
    fKind'[b] = fKind[b] /\ fOffset'[b] = fOffset[b] /\ fData'[b] = fData[b]

\* C11: a successful copy-assignment of node a from node b changes only a's
\* kind tag, offset and payload: the child vectors of a and of b keep their
\* contents, order and counts, no child changes owner, b is entirely
\* unchanged, and the assignment succeeds whenever b has no expression
\* children, however many statement children a or b own.
C11_AssignFrame ==
    [][ret'.op = "assign" =>
        /\ fExpressionChildren[ret'.arg] = <<>> => ~ret'.fault
        /\ ~ret'.fault => /\ AssignFrame(ret'.node)
                          /\ SourceUnchanged(ret'.arg)]_vars

\* C11 for two different nodes: the same frame, with b a node other than a.
C11_AssignFrameDistinct ==
    [][(ret'.op = "assign" /\ ret'.node # ret'.arg) =>
        /\ fExpressionChildren[ret'.arg] = <<>> => ~ret'.fault
        /\ ~ret'.fault => /\ AssignFrame(ret'.node)
                          /\ SourceUnchanged(ret'.arg)]_vars

C11_DistinctWitness ==
    /\ ret.op = "assign" /\ ~ret.fault
    /\ ret.node = 1 /\ ret.arg = 2
    /\ Len(fExpressionChildren[1]) = 1
    /\ Len(fStatementChildren[1]) = 1
    /\ Len(fStatementChildren[2]) = 1
    /\ fData[1].fKind = "kForStatement"
    /\ fData[1] = fData[2]

\* A node that held the last share of st1 has been assigned to itself.
C11_Witness ==
    /\ ret.op = "assign" /\ ~ret.fault
    /\ ret.node = 1 /\ ret.arg = 1
    /\ Len(fStatementChildren[1]) = 1
    /\ fData[1].fKind = "kBlock"
    /\ Handle(fData[1]) = NULL
    /\ tableState["st1"] = "released"

\* C7 as stated: the discriminant of a live node's payload never changes.
C7_ShapeNeverChanges ==
    [][\A n \in NodeIds :
            (st[n] = "live" /\ st'[n] = "live") => fData'[n].fKind = fData[n].fKind]_vars

\* C7, amended: the discriminant of a live node's payload changes only in a
\* copy-assignment into that node, which makes it the source's discriminant;
\* type(), child access, child replacement and the Variable counters leave it
\* alone (the counters change values inside the shape).
C7_ShapeChangesOnlyByAssign ==
    [][/\ \A n \in Ids :
            (st[n] = "live" /\ st'[n] = "live" /\ fData'[n].fKind # fData[n].fKind)
                => (ret'.op = "assign" /\ ~ret'.fault /\ ret'.node = n)
       /\ (ret'.op = "assign" /\ ~ret'.fault)
                => fData'[ret'.node].fKind = fData[ret'.arg].fKind]_vars

C7_Witness ==
    /\ ret.op = "assign" /\ ~ret.fault
    /\ ret.node = 1 /\ ret.arg = 2
    /\ fData[1].fKind = "kString"
    /\ fData[2].fKind = "kString"

(***************************************************************************)
(* Teardown of a node.  ~IRNode is declared at line 36 and defined in the  *)
(* .cpp; after its body the data members are destroyed in the reverse of   *)
(* their declaration order (lines 54 and 553-567).  A vector destroys its  *)
(* elements in an order the library chooses; deleting a child, a leaf      *)
(* here, is the teardown of its payload.  ~NodeData, lines 338-340, is     *)
(* cleanup().                                                              *)
(***************************************************************************)
\* Mutant: fData declared after both vectors.
DeclaredDataLast ==
    <<"fOffset", "fKind", "fExpressionChildren", "fStatementChildren", "fData">>

\* Mutant: the two vectors declared in the other order.
DeclaredStatementsFirst ==
    <<"fOffset", "fKind", "fData", "fStatementChildren", "fExpressionChildren">>

DeclarationOrder ==
    <<"fOffset", "fKind", "fData", "fExpressionChildren", "fStatementChildren">>

Reverse(s) == [i \in 1..Len(s) |-> s[Len(s) + 1 - i]]

DestructionOrder == Reverse(DeclarationOrder)

\* pc of a destructor call: src is the position in DestructionOrder.
InDestructor(n) == ~ret.fault /\ pc.op = "~IRNode" /\ pc.dst = n

NextMember == [pc EXCEPT !.src = @ + 1]

\* The destructor is entered; its body (defined elsewhere) touches no member.
BeginDestroy(n) ==
    /\ Running /\ Live(n)
    /\ st' = [st EXCEPT ![n] = "dying"]
    /\ pc' = [op |-> "~IRNode", dst |-> n, src |-> 1]
    /\ ret' = NoCall
    /\ UNCHANGED <<fKind, fOffset, fData, fExpressionChildren,
                   fStatementChildren, useCount, tableState>>

LiveKids(children) ==
    {i \in DOMAIN children : st[children[i]] = "live"}

\* ~vector<unique_ptr<...>>: one element is deleted per step; when none is
\* left the vector is done.
DestroyVector(n, children) ==
    /\ IF LiveKids(children[n]) # {}
       THEN \E i \in LiveKids(children[n]) :
                LET c == children[n][i]
                    uc == Release(useCount, cleanup(fData[c]))
                IN  /\ st' = [st EXCEPT ![c] = "dead"]
                    /\ fData' = [fData EXCEPT ![c] = NoData]
                    /\ useCount' = uc
                    /\ tableState' = Settle(tableState, uc)
                    /\ pc' = pc
       ELSE /\ pc' = NextMember
            /\ UNCHANGED <<st, fData, useCount, tableState>>
    /\ UNCHANGED <<fKind, fOffset, fExpressionChildren, fStatementChildren, ret>>

\* ~NodeData on the member fData.
DestroyData(n) ==
    /\ LET uc == Release(useCount, cleanup(fData[n]))
       IN  /\ fData' = [fData EXCEPT ![n] = NoData]
           /\ useCount' = uc
           /\ tableState' = Settle(tableState, uc)
    /\ pc' = NextMember
    /\ UNCHANGED <<st, fKind, fOffset, fExpressionChildren, fStatementChildren, ret>>

\* The int members fKind and fOffset have nothing to destroy.
DestroyInt(n) ==
    /\ pc' = NextMember
    /\ UNCHANGED <<st, fKind, fOffset, fData, fExpressionChildren,
                   fStatementChildren, useCount, tableState, ret>>

DestroyMember(n) ==
    /\ InDestructor(n)
    /\ pc.src <= Len(DestructionOrder)
    /\ LET m == DestructionOrder[pc.src]
       IN  \/ m = "fStatementChildren" /\ DestroyVector(n, fStatementChildren)
           \/ m = "fExpressionChildren" /\ DestroyVector(n, fExpressionChildren)
           \/ m = "fData" /\ DestroyData(n)
           \/ m \in {"fKind", "fOffset"} /\ DestroyInt(n)

\* The last member is gone: the object no longer exists.
EndDestroy(n) ==
    /\ InDestructor(n)
    /\ pc.src > Len(DestructionOrder)
    /\ st' = [st EXCEPT ![n] = "dead"]
    /\ fExpressionChildren' = [fExpressionChildren EXCEPT ![n] = <<>>]
    /\ fStatementChildren' = [fStatementChildren EXCEPT ![n] = <<>>]
    /\ pc' = Idle
    /\ UNCHANGED <<fKind, fOffset, fData, useCount, tableState, ret>>

(***************************************************************************)
(* SpecTeardown: nodes with a scope table, expression children and         *)
(* statement children are built and destroyed.  A statement child either   *)
(* holds a share of its parent's table or refers to it without one.        *)
(***************************************************************************)
TeardownSamples ==
    {s \in Samples :
        \/ s.fKind = "kBlock" /\ s.fContents.fSymbolTable # NULL /\ s.fContents.fIsScope
        \/ s.fKind = "kForStatement"
        \/ s.fKind = "kIntLiteral" /\ s.fContents.fType = "int"}

NewNodeT ==
    /\ Running
    /\ \E n \in {m \in NodeIds : st[m] = "unborn" /\ \A x \in NodeIds : x < m => st[x] # "unborn"} :
            \E d \in TeardownSamples, ne \in 0..2, ns \in 0..2 :
                \E kdS \in {StmtLeaf, NodeData("kBlock", BlockData(Handle(d), FALSE))} :
                    Construct(n, 7, 1, d, ne, ns, ExprLeaf, kdS)

Destroy ==
    \E n \in NodeIds : BeginDestroy(n)

DestroyStep ==
    \E n \in NodeIds : DestroyMember(n)

DestroyDone ==
    \E n \in NodeIds : EndDestroy(n)

NextTeardown ==
    \/ NewNodeT
    \/ Destroy
    \/ DestroyStep
    \/ DestroyDone

SpecTeardown == Init /\ [][NextTeardown]_vars

(***************************************************************************)
(* Claims checked under SpecTeardown.                                      *)
(***************************************************************************)
StatementKids(n) ==
    {fStatementChildren[n][i] : i \in DOMAIN fStatementChildren[n]}

ExpressionKids(n) ==
    {fExpressionChildren[n][i] : i \in DOMAIN fExpressionChildren[n]}

PayloadIntact(n) ==
    fData[n] # NoData

\* C1: while a statement child of a node is still alive the node's payload
\* has not been torn down, so the scope table the payload holds still has a
\* share (count above zero) and is alive; the payload releases its share,
\* and the count can reach zero, only after the last statement child is
\* gone.
C1_StatementsBeforePayload ==
    \A n \in NodeIds :
        (\E c \in StatementKids(n) : st[c] = "live")
            => /\ PayloadIntact(n)
               /\ Handle(fData[n]) # NULL
                    => /\ useCount[Handle(fData[n])] > 0
                       /\ tableState[Handle(fData[n])] = "alive"

C1_Witness ==
    /\ st[1] = "dying"
    /\ Len(fStatementChildren[1]) = 2
    /\ \A c \in StatementKids(1) : st[c] = "dead"
    /\ fData[1].fKind = "kForStatement"
    /\ Handle(fData[1]) = "st1"
    /\ useCount["st1"] = 1
    /\ tableState["st1"] = "alive"

\* C2 as stated: expression children, then statement children, then the
\* payload: no statement child is gone while an expression child is left.
C2_ExpressionsThenStatements ==
    \A n \in NodeIds :
        /\ (\E c \in ExpressionKids(n) : st[c] = "live")
                => /\ \A k \in StatementKids(n) : st[k] = "live"
                   /\ PayloadIntact(n)
        /\ (\E c \in StatementKids(n) : st[c] = "live") => PayloadIntact(n)

\* C2, amended: statement children, then expression children, then the
\* payload: no expression child is gone while a statement child is left,
\* and the payload is torn down after every child of both vectors.
C2_StatementsThenExpressions ==
    \A n \in NodeIds :
        /\ (\E c \in StatementKids(n) : st[c] = "live")
                => /\ \A k \in ExpressionKids(n) : st[k] = "live"
                   /\ PayloadIntact(n)
        /\ (\E c \in ExpressionKids(n) : st[c] = "live") => PayloadIntact(n)
        /\ (st[n] = "dying" /\ ~PayloadIntact(n))
                => \A k \in StatementKids(n) \cup ExpressionKids(n) : st[k] = "dead"

C2_Witness ==
    /\ st[1] = "dying"
    /\ Len(fStatementChildren[1]) = 2
    /\ \A c \in StatementKids(1) : st[c] = "dead"
    /\ Len(fExpressionChildren[1]) = 2
    /\ \E c \in ExpressionKids(1) : st[c] = "live"
    /\ \E c \in ExpressionKids(1) : st[c] = "dead"
    /\ PayloadIntact(1)

(***************************************************************************)
(* Free-standing payloads.  The objects 1 and 2 are NodeData values of     *)
(* their own: converting constructors (lines 206-279), the copy            *)
(* constructor (lines 281-283), operator= (lines 285-336) in its two       *)
(* stages, and the destructor (lines 338-340).                             *)
(***************************************************************************)
PayloadFrame ==
    UNCHANGED <<fKind, fOffset, fExpressionChildren, fStatementChildren>>

NodeDataNew(n, d) ==
    /\ Running
    /\ st[n] = "unborn"
    /\ Obtainable(Handle(d))
    /\ LET uc == Retain(useCount, Handle(d))
       IN  /\ useCount' = uc
           /\ tableState' = Settle(tableState, uc)
    /\ st' = [st EXCEPT ![n] = "live"]
    /\ fData' = [fData EXCEPT ![n] = d]
    /\ pc' = pc
    /\ ret' = NoCall
    /\ PayloadFrame

\* operator=, line 286: this->cleanup().  The discriminant keeps its old
\* value and no member of the union is alive.
AssignCleanup(a, b, old) ==
    /\ LET uc == Release(useCount, cleanup(old))
       IN  /\ useCount' = uc
           /\ tableState' = Settle(tableState, uc)
    /\ fData' = [fData EXCEPT ![a] = [fKind |-> old.fKind, fContents |-> Destroyed]]
    /\ pc' = [op |-> "operator=", dst |-> a, src |-> b]
    /\ ret' = NoCall
    /\ PayloadFrame

NodeDataAssign(a, b) ==
    /\ Running /\ Live(a) /\ Live(b)
    /\ st' = st
    /\ AssignCleanup(a, b, fData[a])

\* operator=, lines 287-335: fKind = other.fKind and the switch.
NodeDataInstall ==
    /\ ~ret.fault
    /\ pc.op = "operator="
    /\ \E d \in Install(pc.dst = pc.src, fData[pc.src]) :
            LET uc == Retain(useCount, Handle(d))
            IN  /\ fData' = [fData EXCEPT ![pc.dst] = d]
                /\ useCount' = uc
                /\ tableState' = Settle(tableState, uc)
    /\ pc' = Idle
    /\ ret' = Call("operator=", pc.dst, pc.src, Ok(0))
    /\ st' = st
    /\ PayloadFrame

\* NodeData(const NodeData& other) { *this = other; }: the new object starts
\* with the default discriminant kType of line 181, whose cleanup is empty.
NodeDataCopy(n, b) ==
    /\ Running
    /\ st[n] = "unborn" /\ Live(b)
    /\ st' = [st EXCEPT ![n] = "live"]
    /\ AssignCleanup(n, b, NodeData("kType", TypeData(NULL)))

\* ~NodeData.
NodeDataDestroy(n) ==
    /\ Running /\ Live(n)
    /\ LET uc == Release(useCount, cleanup(fData[n]))
       IN  /\ useCount' = uc
           /\ tableState' = Settle(tableState, uc)
    /\ st' = [st EXCEPT ![n] = "dead"]
    /\ fData' = [fData EXCEPT ![n] = NoData]
    /\ pc' = pc
    /\ ret' = NoCall
    /\ PayloadFrame

(***************************************************************************)
(* SpecData: payloads of every shape are made, copied, assigned (to each   *)
(* other and to themselves) and destroyed.                                 *)
(***************************************************************************)
NewPayload ==
    \E n \in NodeIds, d \in Samples : NodeDataNew(n, d)

CopyPayload ==
    \E n \in NodeIds, b \in NodeIds : NodeDataCopy(n, b)

AssignPayload ==
    \E a \in NodeIds, b \in NodeIds : NodeDataAssign(a, b)

DestroyPayload ==
    \E n \in NodeIds : NodeDataDestroy(n)

NextData ==
    \/ NewPayload
    \/ CopyPayload
    \/ AssignPayload
    \/ NodeDataInstall
    \/ DestroyPayload

SpecData == Init /\ [][NextData]_vars

(***************************************************************************)
(* Claims checked under SpecData.                                          *)
(***************************************************************************)
\* C9: assigning payload b to a distinct payload a first tears a's old shape
\* down, taking exactly one share from the table a held (none for a copy
\* construction, which has no old shape), with b's shape not yet in a; the
\* second stage then makes a's discriminant and every field, the weak
\* references included, equal to b's, adds exactly one share to the table b
\* holds, and leaves b as it was.
C9_AssignTearsDownThenInstalls ==
    [][/\ (pc.op = "idle" /\ pc'.op = "operator=" /\ pc'.dst # pc'.src) =>
            LET a == pc'.dst
                b == pc'.src
                h == Handle(fData[a])
            IN  /\ fData'[a].fContents = Destroyed
                /\ \A t \in Tables :
                        useCount'[t] = useCount[t] - (IF t = h THEN 1 ELSE 0)
                /\ st[a] = "unborn" => useCount' = useCount
                /\ fData'[b] = fData[b]
       /\ (pc.op = "operator=" /\ pc'.op = "idle" /\ pc.dst # pc.src) =>
            LET a == pc.dst
                b == pc.src
                h == Handle(fData[b])
            IN  /\ fData'[a] = fData[b]
                /\ \A t \in Tables :
                        useCount'[t] = useCount[t] + (IF t = h THEN 1 ELSE 0)
                /\ h # NULL => tableState'[h] = "alive"
                /\ fData'[b] = fData[b]]_vars

C9_Witness ==
    /\ ret.op = "operator=" /\ ret.node = 1 /\ ret.arg = 2
    /\ fData[1] = fData[2]
    /\ fData[1].fKind = "kBlock"
    /\ Handle(fData[1]) = "st2"
    /\ useCount["st2"] = 2
    /\ tableState["st1"] = "released"

Holders(t) ==
    {n \in Ids : Handle(fData[n]) = t}

\* C10: the share count of every scope table is the number of live payloads
\* holding it and a held table is alive; assigning a payload to itself
\* releases no table at either of its stages, so a table whose last share
\* the payload holds is still alive afterwards.
C10_SharesMatchHolders ==
    /\ [](\A t \in Tables :
            /\ useCount[t] = Cardinality(Holders(t))
            /\ Holders(t) # {} => tableState[t] = "alive")
    /\ [][((pc'.op = "operator=" /\ pc'.dst = pc'.src)
                \/ (pc.op = "operator=" /\ pc.dst = pc.src))
            => tableState' = tableState]_vars


=============================================================================
